---- MODULE Spec2Model ----
(***************************************************************************)
(* claude-extend (cx): a registry of MCP tool descriptors, the descriptor  *)
(* operations that shell out to the host CLI (`claude mcp ...`), and the   *)
(* list / add / remove commands built on them.                             *)
(*                                                                         *)
(* Python str values are TLA+ strings, Python lists are sequences, and an  *)
(* insertion-ordered dict is a sequence of [key, tool] entries with        *)
(* distinct keys.  A call that can raise is an operator returning a record *)
(* whose exc field names the exception ("none" when it returns).           *)
(***************************************************************************)
EXTENDS Integers, Sequences, FiniteSets, TLC

(***************************************************************************)
(* Bounds of the model.                                                    *)
(***************************************************************************)
\* longest list of tool names given to `cx add` / `cx remove`
MaxArgs == 2

(***************************************************************************)
(* Python built-ins used by the code.                                      *)
(***************************************************************************)
\* `pat in text` on str
Contains(text, pat) ==
    \E i \in 0..(Len(text) - Len(pat)) : SubSeq(text, i + 1, i + Len(pat)) = pat

\* str.replace(old, new): every non-overlapping occurrence, left to right
RECURSIVE Replace(_, _, _)
Replace(s, old, new) ==
    IF Len(s) < Len(old) THEN s
    ELSE IF SubSeq(s, 1, Len(old)) = old
         THEN new \o Replace(SubSeq(s, Len(old) + 1, Len(s)), old, new)
         ELSE SubSeq(s, 1, 1) \o Replace(SubSeq(s, 2, Len(s)), old, new)

\* the elements of a sequence satisfying a test, in order (list comprehension)
RECURSIVE SelectIdx(_, _)
SelectIdx(n, keep) ==
    IF n = 0 THEN <<>>
    ELSE IF n \in keep THEN Append(SelectIdx(n - 1, keep), n)
         ELSE SelectIdx(n - 1, keep)

\* binding of keyword arguments to a method's parameters: a keyword the
\* signature does not declare raises TypeError before the body runs
Binds(params, kwargs) == kwargs \subseteq params

NoExc == "none"

(***************************************************************************)
(* print_message(level, message): one status line on stderr.  A line is    *)
(* kept as its level, the literal text of the f-string and the            *)
(* interpolated values.                                                    *)
(***************************************************************************)
print_message(level, msg, arg, extra) ==
    [level |-> level, msg |-> msg, arg |-> arg, extra |-> extra]

(***************************************************************************)
(* Tool descriptors and the hardcoded registry.                            *)
(***************************************************************************)
MCPTool(name, description, prerequisite, error_message, install_command) ==
    [name |-> name, description |-> description, prerequisite |-> prerequisite,
     error_message |-> error_message, install_command |-> install_command]

DefaultTools ==
    << [key |-> "serena", tool |-> MCPTool(
            "serena",
            "Serena - Semantic code analysis and intelligent IDE assistant",
            "uvx",
            "uvx not found. Please install uv first: curl -LsSf https://astral.sh/uv/install.sh | sh",
            <<"claude", "mcp", "add", "serena", "--", "uvx", "--from",
              "git+https://github.com/oraios/serena", "serena", "start-mcp-server",
              "--context", "ide-assistant", "--project", "{project_dir}">>)],
       [key |-> "basic-memory", tool |-> MCPTool(
            "basic-memory",
            "Basic Memory - Enhanced memory capabilities for Claude",
            "basic-memory",
            "basic-memory not found. Please install it first. See: https://docs.basicmemory.com/getting-started/#installation",
            <<"claude", "mcp", "add", "basic-memory", "basic-memory", "mcp">>)],
       [key |-> "gemini-cli", tool |-> MCPTool(
            "gemini-cli",
            "Gemini CLI - Google Gemini integration tool",
            "npm",
            "npm/npx not found. Please install Node.js first.",
            <<"claude", "mcp", "add", "gemini-cli", "--", "npx", "-y", "gemini-mcp-tool">>)] >>

(***************************************************************************)
(* Registry lookups.  `reg` is the registry's tools dict.                  *)
(***************************************************************************)
get_tool_names(reg) == [i \in 1..Len(reg) |-> reg[i].key]

KeySet(reg) == {reg[i].key : i \in 1..Len(reg)}

NoTool == [name |-> "", description |-> "", prerequisite |-> "",
           error_message |-> "", install_command |-> <<>>]

\* mutant of get_tool: a missing name yields an empty descriptor instead of None
get_tool_default(reg, name) ==
    IF name \in KeySet(reg)
    THEN [found |-> TRUE, tool |-> reg[CHOOSE i \in 1..Len(reg) : reg[i].key = name].tool]
    ELSE [found |-> TRUE, tool |-> NoTool]

\* dict.get(name): the descriptor, or None
get_tool(reg, name) ==
    IF name \in KeySet(reg)
    THEN [found |-> TRUE, tool |-> reg[CHOOSE i \in 1..Len(reg) : reg[i].key = name].tool]
    ELSE [found |-> FALSE, tool |-> NoTool]

list_tools(reg) == reg

(***************************************************************************)
(* External configuration file (utils.py, tools.py _load_tools).  A file   *)
(* is what reading and parsing it gives: unreadable, not JSON, or a JSON   *)
(* value.  A JSON object is a sequence of [key, cfg] members with distinct *)
(* keys; cfg is a record holding the fields the member defines.            *)
(***************************************************************************)
NoPath == "<None>"
EnvPath == "/etc/cx/tools.json"
XdgPath == "~/.config/claude-extend/tools.json"
HomePath == "~/.claude-extend/tools.json"
ConfigLocations == <<XdgPath, HomePath>>

RequiredFields == {"name", "description", "prerequisite", "error_message", "install_command"}

JsonFile(root, hasTools, toolsType, entries) ==
    [readable |-> TRUE, wellFormed |-> TRUE, root |-> root, hasTools |-> hasTools,
     toolsType |-> toolsType, entries |-> entries]

CustomEntry ==
    [key |-> "custom-tool",
     cfg |-> [name |-> "custom-tool", description |-> "Custom Tool - A custom MCP tool",
              prerequisite |-> "python", error_message |-> "Python not found",
              install_command |-> <<"echo", "installing", "custom-tool">>]]
FooEntry ==
    [key |-> "foo",
     cfg |-> [name |-> "foo", description |-> "Foo", prerequisite |-> "npm",
              error_message |-> "npm not found",
              install_command |-> <<"claude", "mcp", "add", "foo", "--", "npx", "foo-mcp",
                                    "--dir={project_dir}">>]]
FooBarEntry ==
    [key |-> "foobar",
     cfg |-> [name |-> "foobar", description |-> "Foobar", prerequisite |-> "uvx",
              error_message |-> "uvx not found",
              install_command |-> <<"claude", "mcp", "add", "foobar", "--", "uvx", "foobar">>]]
\* a member whose name is the end of another member's name
BarEntry ==
    [key |-> "bar",
     cfg |-> [name |-> "bar", description |-> "Bar", prerequisite |-> "uvx",
              error_message |-> "uvx not found",
              install_command |-> <<"claude", "mcp", "add", "bar", "--", "uvx", "bar",
                                    "{project_dir}:{project_dir}">>]]
\* a member that overrides a built-in name with its own descriptor
SerenaEntry ==
    [key |-> "serena",
     cfg |-> [name |-> "serena", description |-> "Serena (pinned)", prerequisite |-> "python",
              error_message |-> "Python not found",
              install_command |-> <<"claude", "mcp", "add", "serena", "--", "python", "-m", "serena">>]]
\* a member filed under a key that is not its name
AliasEntry ==
    [key |-> "alias",
     cfg |-> [name |-> "custom-tool", description |-> "Custom Tool (alias)",
              prerequisite |-> "python", error_message |-> "Python not found",
              install_command |-> <<"claude", "mcp", "add", "custom-tool", "--", "python", "-m", "custom">>]]
\* a member whose install_command is the empty list
EmptyCommandEntry ==
    [key |-> "empty",
     cfg |-> [name |-> "empty", description |-> "Empty", prerequisite |-> "python",
              error_message |-> "Python not found", install_command |-> <<>>]]
\* a member without error_message
MissingFieldEntry ==
    [key |-> "broken",
     cfg |-> [name |-> "broken", description |-> "Broken", prerequisite |-> "python",
              install_command |-> <<"echo", "broken">>]]

Unreadable == [readable |-> FALSE, wellFormed |-> FALSE, root |-> "", hasTools |-> FALSE,
               toolsType |-> "", entries |-> <<>>]
Malformed == [readable |-> TRUE, wellFormed |-> FALSE, root |-> "", hasTools |-> FALSE,
              toolsType |-> "", entries |-> <<>>]

ConfigFiles ==
    { Unreadable, Malformed,
      JsonFile("array", FALSE, "", <<>>),
      JsonFile("object", FALSE, "", <<>>),
      JsonFile("object", TRUE, "array", <<>>),
      JsonFile("object", TRUE, "object", <<>>),
      JsonFile("object", TRUE, "object", <<CustomEntry>>),
      JsonFile("object", TRUE, "object", <<FooEntry, FooBarEntry>>),
      JsonFile("object", TRUE, "object", <<BarEntry, FooBarEntry>>),
      JsonFile("object", TRUE, "object", <<AliasEntry, EmptyCommandEntry>>),
      JsonFile("object", TRUE, "object", <<SerenaEntry, CustomEntry>>),
      JsonFile("object", TRUE, "object", <<CustomEntry, MissingFieldEntry>>) }

\* mutant of get_config_path: the path the variable names is returned unseen
get_config_path_unchecked(env_config, exists) ==
    IF env_config # "" THEN env_config
    ELSE IF ConfigLocations[1] \in exists THEN ConfigLocations[1]
    ELSE IF ConfigLocations[2] \in exists THEN ConfigLocations[2]
    ELSE NoPath

\* utils.get_config_path: env_config is os.environ.get(...) ("" when unset),
\* exists the set of paths that exist
get_config_path(env_config, exists) ==
    IF env_config # "" /\ env_config \in exists THEN env_config
    ELSE IF ConfigLocations[1] \in exists THEN ConfigLocations[1]
    ELSE IF ConfigLocations[2] \in exists THEN ConfigLocations[2]
    ELSE NoPath

\* utils.load_external_tools_config: open, json.load, config_data.get('tools', {})
load_external_tools_config(file) ==
    IF ~file.readable THEN [exc |-> "OSError", type |-> "", entries |-> <<>>]
    ELSE IF ~file.wellFormed THEN [exc |-> "JSONDecodeError", type |-> "", entries |-> <<>>]
    ELSE IF file.root # "object" THEN [exc |-> "AttributeError", type |-> "", entries |-> <<>>]
    ELSE IF ~file.hasTools THEN [exc |-> NoExc, type |-> "object", entries |-> <<>>]
    ELSE [exc |-> NoExc, type |-> file.toolsType, entries |-> file.entries]

Fallback(lines, e) ==
    [tools |-> DefaultTools,
     out |-> lines \o << print_message("warning", "Failed to load external config: ", e, ""),
                         print_message("info", "Falling back to default tool registry", "", "") >>]

\* the config dicts converted to MCPTool objects, keyed as in the file
ToolsFromConfig(entries) ==
    [i \in 1..Len(entries) |->
        [key |-> entries[i].key,
         tool |-> MCPTool(entries[i].cfg.name, entries[i].cfg.description,
                          entries[i].cfg.prerequisite, entries[i].cfg.error_message,
                          entries[i].cfg.install_command)]]

\* mutant of load_tools: the config's tools are added to the defaults
load_tools_merged(config_path, file) ==
    LET ext == load_external_tools_config(file)
    IN IF config_path = NoPath \/ ext.exc # NoExc \/ ext.type # "object"
          \/ \E i \in 1..Len(ext.entries) : ~(RequiredFields \subseteq DOMAIN ext.entries[i].cfg)
       THEN [tools |-> DefaultTools, out |-> <<>>]
       ELSE [tools |-> DefaultTools \o ToolsFromConfig(ext.entries), out |-> <<>>]

\* the members converted before the first one that lacks a required field
RECURSIVE ConvertedPrefix(_, _)
ConvertedPrefix(entries, k) ==
    IF k > Len(entries) \/ ~(RequiredFields \subseteq DOMAIN entries[k].cfg) THEN <<>>
    ELSE << ToolsFromConfig(entries)[k] >> \o ConvertedPrefix(entries, k + 1)

\* mutant of load_tools: on a failed conversion the tools converted so far are kept
load_tools_partial(config_path, file) ==
    IF config_path = NoPath THEN [tools |-> DefaultTools, out |-> <<>>]
    ELSE LET ext == load_external_tools_config(file)
             loaded == << print_message("info", "Loaded tools from config: ", config_path, "") >>
         IN IF ext.exc # NoExc THEN Fallback(<<>>, ext.exc)
            ELSE IF ext.type # "object" THEN Fallback(loaded, "AttributeError")
            ELSE IF \E i \in 1..Len(ext.entries) :
                        ~(RequiredFields \subseteq DOMAIN ext.entries[i].cfg)
                 THEN [tools |-> ConvertedPrefix(ext.entries, 1) \o DefaultTools,
                       out |-> Fallback(loaded, "KeyError").out]
                 ELSE [tools |-> ToolsFromConfig(ext.entries), out |-> loaded]

\* mutant of load_tools: the absence of a config file is reported like a failure
load_tools_warns(config_path, file) ==
    IF config_path = NoPath THEN Fallback(<<>>, "FileNotFoundError")
    ELSE LET ext == load_external_tools_config(file)
             loaded == << print_message("info", "Loaded tools from config: ", config_path, "") >>
         IN IF ext.exc # NoExc THEN Fallback(<<>>, ext.exc)
            ELSE IF ext.type # "object" THEN Fallback(loaded, "AttributeError")
            ELSE IF \E i \in 1..Len(ext.entries) :
                        ~(RequiredFields \subseteq DOMAIN ext.entries[i].cfg)
                 THEN Fallback(loaded, "KeyError")
                 ELSE [tools |-> ToolsFromConfig(ext.entries), out |-> loaded]

\* mutant of load_tools: a config that defines no tool counts as a failed load
load_tools_nonempty(config_path, file) ==
    IF config_path = NoPath THEN [tools |-> DefaultTools, out |-> <<>>]
    ELSE LET ext == load_external_tools_config(file)
             loaded == << print_message("info", "Loaded tools from config: ", config_path, "") >>
         IN IF ext.exc # NoExc THEN Fallback(<<>>, ext.exc)
            ELSE IF ext.type # "object" THEN Fallback(loaded, "AttributeError")
            ELSE IF ext.entries = <<>> THEN Fallback(loaded, "ValueError")
            ELSE IF \E i \in 1..Len(ext.entries) :
                        ~(RequiredFields \subseteq DOMAIN ext.entries[i].cfg)
                 THEN Fallback(loaded, "KeyError")
                 ELSE [tools |-> ToolsFromConfig(ext.entries), out |-> loaded]

\* MCPToolRegistry._load_tools: the tools dict and the lines printed
load_tools(config_path, file) ==
    IF config_path = NoPath THEN [tools |-> DefaultTools, out |-> <<>>]
    ELSE LET ext == load_external_tools_config(file)
             loaded == << print_message("info", "Loaded tools from config: ", config_path, "") >>
         IN IF ext.exc # NoExc THEN Fallback(<<>>, ext.exc)
            ELSE IF ext.type # "object" THEN Fallback(loaded, "AttributeError")
            ELSE IF \E i \in 1..Len(ext.entries) :
                        ~(RequiredFields \subseteq DOMAIN ext.entries[i].cfg)
                 THEN Fallback(loaded, "KeyError")
                 ELSE [tools |-> ToolsFromConfig(ext.entries), out |-> loaded]

(***************************************************************************)
(* The host CLI and the executable search path.                            *)
(***************************************************************************)
Executables == {"claude", "uvx", "basic-memory", "npm", "npx", "python", "echo"}

\* the search paths the model starts from
PathChoices ==
    { Executables,
      Executables \ {"claude"},
      {"claude"},
      {"claude", "npx", "python"},
      {"claude", "uvx", "echo"} }

\* server names in the order the host lists them
HostOrder == <<"serena", "basic-memory", "gemini-cli", "custom-tool", "foo", "foobar", "bar",
               "empty">>

\* stdout of `claude mcp list`: one "name: ..." line per configured server
RECURSIVE ListLines(_, _)
ListLines(servers, n) ==
    IF n = 0 THEN ""
    ELSE ListLines(servers, n - 1) \o
         (IF HostOrder[n] \in servers THEN HostOrder[n] \o ": connected\n" ELSE "")
McpListOutput(servers) == ListLines(servers, Len(HostOrder))

ListCommand == <<"claude", "mcp", "list">>
ListOutcomes == {"ok", "nonzero", "subprocess_error"}
ExitCodes == {0, 1}

\* texts a host may print on stdout besides the listing above
HostTexts == {"foobar: installed", "serena", "xserena: ok", "serena : ok\nbar:"}

\* subprocess.run(['claude', 'mcp', 'list'], capture_output=True, text=True)
\* with a host that prints `text`: no check=True, so a non-zero exit returns
\* normally (with nothing listed)
RunListText(path, text, outcome) ==
    IF "claude" \notin path THEN [exc |-> "FileNotFoundError", stdout |-> ""]
    ELSE IF outcome = "subprocess_error" THEN [exc |-> "SubprocessError", stdout |-> ""]
    ELSE IF outcome = "nonzero" THEN [exc |-> NoExc, stdout |-> ""]
    ELSE [exc |-> NoExc, stdout |-> text]

RunList(path, servers, outcome) == RunListText(path, McpListOutput(servers), outcome)

\* subprocess.run(command, check=True)
RunChecked(command, path, exit) ==
    IF command = <<>> THEN "IndexError"
    ELSE IF command[1] \notin path THEN "FileNotFoundError"
    ELSE IF exit # 0 THEN "CalledProcessError"
    ELSE NoExc

\* what a host command that exited with code zero leaves configured
HostApply(servers, command) ==
    IF Len(command) >= 4 /\ SubSeq(command, 1, 3) = <<"claude", "mcp", "add">>
    THEN servers \cup {command[4]}
    ELSE IF Len(command) = 4 /\ SubSeq(command, 1, 3) = <<"claude", "mcp", "remove">>
         THEN servers \ {command[4]}
         ELSE servers

\* the exception classes under subprocess.SubprocessError
SubprocessErrors == {"SubprocessError", "CalledProcessError", "TimeoutExpired"}

(***************************************************************************)
(* MCPTool operations (tools.py).  The results of the host processes the   *)
(* operation spawns are parameters: `outcome` of the `mcp list` query,     *)
(* `exit` the exit code of the add / remove command.                       *)
(***************************************************************************)
None == "<None>"
Cwd == "/work/project"

\* parameters (besides self) the methods declare
IsInstalledParams == {}
InstallParams == {"project_dir"}
RemoveParams == {}

\* mutant of check_prerequisites: the lookup's result is not consulted
check_prerequisites_unchecked(tool, path) == TRUE

check_prerequisites(tool, path) ==
    IF tool.prerequisite = "npm" THEN "npm" \in path \/ "npx" \in path
    ELSE tool.prerequisite \in path

\* mutant of is_installed: the name is looked for without the colon
is_installed_any(tool, q) ==
    IF q.exc \in SubprocessErrors THEN [exc |-> NoExc, val |-> FALSE]
    ELSE IF q.exc # NoExc THEN [exc |-> q.exc, val |-> FALSE]
    ELSE [exc |-> NoExc, val |-> Contains(q.stdout, tool.name)]

\* mutant of is_installed: the marker has to open the output or a line of it
is_installed_line(tool, q) ==
    IF q.exc \in SubprocessErrors THEN [exc |-> NoExc, val |-> FALSE]
    ELSE IF q.exc # NoExc THEN [exc |-> q.exc, val |-> FALSE]
    ELSE [exc |-> NoExc, val |-> Contains("\n" \o q.stdout, "\n" \o tool.name \o ":")]

\* q is the result of the `mcp list` query
is_installed(tool, q) ==
    IF q.exc \in SubprocessErrors THEN [exc |-> NoExc, val |-> FALSE]
    ELSE IF q.exc # NoExc THEN [exc |-> q.exc, val |-> FALSE]
    ELSE [exc |-> NoExc, val |-> Contains(q.stdout, tool.name \o ":")]

PyBool(b) == IF b THEN "True" ELSE "False"

\* mutant of InstallCommand: only a token that is the placeholder is replaced
InstallCommand_tokens(tool, project_dir) ==
    [i \in 1..Len(tool.install_command) |->
        IF tool.install_command[i] = "{project_dir}" THEN project_dir
        ELSE tool.install_command[i]]

\* command = [cmd.replace('{project_dir}', project_dir) for cmd in self.install_command]
InstallCommand(tool, project_dir) ==
    [i \in 1..Len(tool.install_command) |->
        Replace(tool.install_command[i], "{project_dir}", project_dir)]

\* mutant of install: the command is run without asking whether the tool is installed
install_unchecked(tool, project_dir, path, servers, outcome, exit) ==
    LET command == InstallCommand(tool, IF project_dir = None THEN Cwd ELSE project_dir)
        run == RunChecked(command, path, exit)
    IN [exc |-> IF run \in {NoExc, "CalledProcessError"} THEN NoExc ELSE run,
        val |-> IF run = NoExc THEN PyBool(TRUE)
                ELSE IF run = "CalledProcessError" THEN PyBool(FALSE) ELSE None,
        calls |-> <<ListCommand, command>>, out |-> <<>>,
        servers |-> IF run = NoExc THEN HostApply(servers, command) ELSE servers]

install(tool, project_dir, path, servers, outcome, exit) ==
    LET dir == IF project_dir = None THEN Cwd ELSE project_dir
        inst == is_installed(tool, RunList(path, servers, outcome))
        command == InstallCommand(tool, dir)
        run == RunChecked(command, path, exit)
        installing == print_message("info", "Installing ...", tool.description, "")
    IN IF inst.exc # NoExc
       THEN [exc |-> inst.exc, val |-> None, calls |-> <<ListCommand>>, out |-> <<>>,
             servers |-> servers]
       ELSE IF inst.val
       THEN [exc |-> NoExc, val |-> PyBool(TRUE), calls |-> <<ListCommand>>,
             out |-> << print_message("success", " is already installed", tool.name, "") >>,
             servers |-> servers]
       ELSE IF run = NoExc
       THEN [exc |-> NoExc, val |-> PyBool(TRUE), calls |-> <<ListCommand, command>>,
             out |-> << installing, print_message("success", " installed", tool.name, "") >>,
             servers |-> HostApply(servers, command)]
       ELSE IF run = "CalledProcessError"
       THEN [exc |-> NoExc, val |-> PyBool(FALSE), calls |-> <<ListCommand, command>>,
             out |-> << installing, print_message("error", "Failed to install ", tool.name, "") >>,
             servers |-> servers]
       ELSE [exc |-> run, val |-> None, calls |-> <<ListCommand, command>>,
             out |-> << installing >>, servers |-> servers]

RemoveCommand(tool) == <<"claude", "mcp", "remove", tool.name>>

\* mutant of remove: the command is run without asking whether the tool is installed
remove_unchecked(tool, path, servers, outcome, exit) ==
    LET command == RemoveCommand(tool)
        run == RunChecked(command, path, exit)
    IN [exc |-> IF run \in {NoExc, "CalledProcessError"} THEN NoExc ELSE run,
        val |-> IF run = NoExc THEN PyBool(TRUE)
                ELSE IF run = "CalledProcessError" THEN PyBool(FALSE) ELSE None,
        calls |-> <<ListCommand, command>>, out |-> <<>>,
        servers |-> IF run = NoExc THEN HostApply(servers, command) ELSE servers]

remove(tool, path, servers, outcome, exit) ==
    LET inst == is_installed(tool, RunList(path, servers, outcome))
        command == RemoveCommand(tool)
        run == RunChecked(command, path, exit)
        removing == print_message("info", "Removing ...", tool.description, "")
    IN IF inst.exc # NoExc
       THEN [exc |-> inst.exc, val |-> None, calls |-> <<ListCommand>>, out |-> <<>>,
             servers |-> servers]
       ELSE IF ~inst.val
       THEN [exc |-> NoExc, val |-> PyBool(TRUE), calls |-> <<ListCommand>>,
             out |-> << print_message("info", " is not installed", tool.name, "") >>,
             servers |-> servers]
       ELSE IF run = NoExc
       THEN [exc |-> NoExc, val |-> PyBool(TRUE), calls |-> <<ListCommand, command>>,
             out |-> << removing, print_message("success", " removed", tool.name, "") >>,
             servers |-> HostApply(servers, command)]
       ELSE IF run = "CalledProcessError"
       THEN [exc |-> NoExc, val |-> PyBool(FALSE), calls |-> <<ListCommand, command>>,
             out |-> << removing, print_message("error", "Failed to remove ", tool.name, "") >>,
             servers |-> servers]
       ELSE [exc |-> run, val |-> None, calls |-> <<ListCommand, command>>,
             out |-> << removing >>, servers |-> servers]

\* [name for name, tool in self.tools.items() if tool.is_installed() == want]:
\* one `mcp list` query per tool, outcomes[i] the outcome of the i-th; the
\* comprehension stops at the first query that raises
InstalledScan(reg, path, servers, outcomes, want) ==
    LET res == [i \in 1..Len(reg) |-> is_installed(reg[i].tool, RunList(path, servers, outcomes[i]))]
        bad == {i \in 1..Len(reg) : res[i].exc # NoExc}
        first == IF bad = {} THEN 0 ELSE CHOOSE i \in bad : \A j \in bad : i <= j
        keep == SelectIdx(Len(reg), {i \in 1..Len(reg) : res[i].val = want})
    IN IF bad = {}
       THEN [exc |-> NoExc, names |-> [k \in 1..Len(keep) |-> reg[keep[k]].key],
             calls |-> [i \in 1..Len(reg) |-> ListCommand]]
       ELSE [exc |-> res[first].exc, names |-> <<>>, calls |-> [i \in 1..first |-> ListCommand]]

get_installed_tools(reg, path, servers, outcomes) ==
    InstalledScan(reg, path, servers, outcomes, TRUE)

\* mutant of get_available_tools: the test on is_installed() is not negated
get_available_tools_same(reg, path, servers, outcomes) ==
    InstalledScan(reg, path, servers, outcomes, TRUE)

get_available_tools(reg, path, servers, outcomes) ==
    InstalledScan(reg, path, servers, outcomes, FALSE)

(***************************************************************************)
(* Environment checks (utils.py).  `project` says whether a project marker *)
(* file exists in the working directory, `tty` whether stdin is a terminal.*)
(***************************************************************************)
\* mutant of validate_environment: a missing host binary is reported but not returned
validate_environment_lenient(path, project) ==
    [val |-> TRUE,
     out |-> IF "claude" \notin path
             THEN << print_message("error", "Claude CLI not found. Please install it first.", "", "") >>
             ELSE <<>>]

\* mutant of validate_environment: a directory without project files is refused
validate_environment_strict(path, project) ==
    IF ~project
    THEN [val |-> FALSE,
          out |-> << print_message("warning", "No project directory detected", "", "") >>]
    ELSE IF "claude" \notin path
    THEN [val |-> FALSE,
          out |-> << print_message("success", "Project directory detected: ", Cwd, ""),
                     print_message("error", "Claude CLI not found. Please install it first.", "", "") >>]
    ELSE [val |-> TRUE, out |-> << print_message("success", "Project directory detected: ", Cwd, "") >>]

validate_environment(path, project) ==
    LET lines == IF ~project
                 THEN << print_message("warning", "No project directory detected", "", ""),
                         print_message("info", "Look for files like package.json, pyproject.toml, Cargo.toml, .git, or go.mod", "", "") >>
                 ELSE << print_message("success", "Project directory detected: ", Cwd, "") >>
    IN IF "claude" \notin path
       THEN [val |-> FALSE,
             out |-> Append(lines, print_message("error", "Claude CLI not found. Please install it first.", "", ""))]
       ELSE [val |-> TRUE, out |-> lines]

validate_interactive_environment(path, project, tty) ==
    LET v == validate_environment(path, project)
    IN IF ~v.val THEN v
       ELSE IF ~tty
       THEN [val |-> FALSE,
             out |-> Append(v.out, print_message("error", "This command requires interactive input.", "", ""))]
       ELSE v

(***************************************************************************)
(* State.                                                                  *)
(*   pc       where the process is: "boot" before the registry exists,     *)
(*            "idle" between operations, "loop" inside a batch loop,       *)
(*            "select" at the interactive menu, and "done" / "exited" /    *)
(*            "raised" when the operation returned, called sys.exit or let *)
(*            an exception escape                                          *)
(*   tools    MCPToolRegistry.tools                                        *)
(*   path     the executables on the search path                           *)
(*   servers  the MCP servers the host has configured                      *)
(*   op, args the operation in progress and its arguments                  *)
(*   idx      batch loop: how many names of the list have been processed   *)
(*   work     batch loop: the list being iterated                          *)
(* and what the operation did so far:                                      *)
(*   ret, names  its return value (names when it returns a list)           *)
(*   exc, status the escaped exception, the sys.exit status                *)
(*   out      the status lines printed                                     *)
(*   calls    the commands handed to subprocess.run, in order              *)
(*   results  batch loop: one [name, outcome] per processed name           *)
(*   seen     what it read from its environment                            *)
(* and, for the process as a whole:                                        *)
(*   servers0 the MCP servers the host had configured when it started      *)
(***************************************************************************)
VARIABLES pc, tools, path, servers, op, args, idx, work, ret, names, exc, status,
          out, calls, results, seen, servers0

vars == <<pc, tools, path, servers, op, args, idx, work, ret, names, exc, status,
          out, calls, results, seen, servers0>>

NoArgs == [command |-> "", tools |-> <<>>, interactive |-> FALSE, name |-> "",
           project_dir |-> None]
NoSeen == [env_config |-> "", exists |-> {}, config_path |-> NoPath, file |-> Unreadable,
           project |-> FALSE, tty |-> FALSE, reported |-> "", exit |-> 0, stdin |-> "",
           stdout |-> "", outcomes |-> <<>>]

\* inputs
ArgNames == {"serena", "foo", "nonexistent"}
ArgLists == UNION {[1..n -> ArgNames] : n \in 0..MaxArgs}
ProjectDirs == {None, "/x/y"}
InitServers == {{}, {"serena"}, {"foobar"}}

Init ==
    /\ pc = "boot"
    /\ tools = <<>>
    /\ path \in PathChoices
    /\ servers \in InitServers
    /\ servers0 = servers
    /\ op = "" /\ args = NoArgs /\ idx = 0 /\ work = <<>>
    /\ ret = None /\ names = <<>> /\ exc = NoExc /\ status = 0
    /\ out = <<>> /\ calls = <<>> /\ results = <<>> /\ seen = NoSeen

\* main.py: registry = MCPToolRegistry()
Construct ==
    /\ pc = "boot"
    /\ \E env_config \in {"", EnvPath}, exists \in SUBSET {EnvPath, XdgPath, HomePath} :
         LET p == get_config_path(env_config, exists)
         IN \E file \in (IF p = NoPath THEN {Unreadable} ELSE ConfigFiles) :
              LET r == load_tools(p, file)
              IN /\ tools' = r.tools
                 /\ out' = r.out
                 /\ seen' = [NoSeen EXCEPT !.env_config = env_config, !.exists = exists,
                                           !.config_path = p, !.file = file]
    /\ pc' = "done" /\ op' = "MCPToolRegistry"
    /\ UNCHANGED <<servers0, path, servers, args, idx, work, ret, names, exc, status, calls,
                   results>>

\* main.py 209-214: the remove parser declares `tools` only, so parse_args()
\* rejects `cx remove --interactive [names]` with usage error and status 2,
\* before the registry is built
main_remove_interactive ==
    /\ pc = "boot"
    /\ \E a \in ArgLists :
         /\ Len(a) <= 1
         /\ args' = [NoArgs EXCEPT !.command = "remove", !.tools = a, !.interactive = TRUE]
    /\ op' = "main"
    /\ pc' = "exited" /\ exc' = "SystemExit" /\ status' = 2
    /\ out' = << print_message("stderr", "cx: error: unrecognized arguments: ", "--interactive", "") >>
    /\ UNCHANGED <<servers0, tools, path, servers, idx, work, ret, names, calls, results, seen>>

\* the operation's result is taken; the registry stays for the next one
Return ==
    /\ pc = "done"
    /\ pc' = "idle"
    /\ op' = "" /\ args' = NoArgs /\ idx' = 0 /\ work' = <<>>
    /\ ret' = None /\ names' = <<>> /\ exc' = NoExc /\ status' = 0
    /\ out' = <<>> /\ calls' = <<>> /\ results' = <<>> /\ seen' = NoSeen
    /\ UNCHANGED <<servers0, tools, path, servers>>

Ends(e) == IF e = NoExc THEN "done" ELSE "raised"

(***************************************************************************)
(* Registry and descriptor operations called on a constructed registry.    *)
(***************************************************************************)
CallGetTool ==
    /\ pc = "idle"
    /\ \E n \in ArgNames \cup KeySet(tools) :
         /\ args' = [NoArgs EXCEPT !.name = n]
         /\ ret' = IF get_tool(tools, n).found THEN get_tool(tools, n).tool.name ELSE None
    /\ pc' = "done" /\ op' = "get_tool"
    /\ out' = <<>> /\ seen' = NoSeen
    /\ UNCHANGED <<servers0, tools, path, servers, idx, work, names, exc, status, calls, results>>

CallIsInstalled ==
    /\ pc = "idle"
    /\ \E i \in 1..Len(tools), outcome \in ListOutcomes,
          text \in {McpListOutput(servers)} \cup HostTexts :
         LET q == RunListText(path, text, outcome)
             r == is_installed(tools[i].tool, q)
         IN /\ q.stdout = "" => text = McpListOutput(servers)
            /\ args' = [NoArgs EXCEPT !.name = tools[i].key]
            /\ ret' = IF r.exc = NoExc THEN PyBool(r.val) ELSE None
            /\ exc' = r.exc
            /\ pc' = Ends(r.exc)
            /\ seen' = [NoSeen EXCEPT !.reported = IF q.exc = NoExc THEN outcome ELSE q.exc,
                                      !.stdout = q.stdout]
    /\ op' = "is_installed" /\ calls' = <<ListCommand>> /\ out' = <<>>
    /\ UNCHANGED <<servers0, tools, path, servers, idx, work, names, status, results>>

\* what is_installed answered inside install / remove
Reported(tool, q) ==
    IF is_installed(tool, q).exc # NoExc THEN is_installed(tool, q).exc
    ELSE PyBool(is_installed(tool, q).val)

CallInstall ==
    /\ pc = "idle"
    /\ \E i \in 1..Len(tools), dir \in ProjectDirs, outcome \in ListOutcomes, exit \in ExitCodes :
         LET r == install(tools[i].tool, dir, path, servers, outcome, exit)
         IN /\ Len(r.calls) < 2 => exit = 0
            /\ args' = [NoArgs EXCEPT !.name = tools[i].key, !.project_dir = dir]
            /\ ret' = r.val /\ exc' = r.exc /\ pc' = Ends(r.exc)
            /\ out' = r.out /\ calls' = r.calls /\ servers' = r.servers
            /\ seen' = [NoSeen EXCEPT
                          !.reported = Reported(tools[i].tool, RunList(path, servers, outcome)),
                          !.exit = exit]
    /\ op' = "install"
    /\ UNCHANGED <<servers0, tools, path, idx, work, names, status, results>>

CallRemove ==
    /\ pc = "idle"
    /\ \E i \in 1..Len(tools), outcome \in ListOutcomes, exit \in ExitCodes :
         LET r == remove(tools[i].tool, path, servers, outcome, exit)
         IN /\ Len(r.calls) < 2 => exit = 0
            /\ args' = [NoArgs EXCEPT !.name = tools[i].key]
            /\ ret' = r.val /\ exc' = r.exc /\ pc' = Ends(r.exc)
            /\ out' = r.out /\ calls' = r.calls /\ servers' = r.servers
            /\ seen' = [NoSeen EXCEPT
                          !.reported = Reported(tools[i].tool, RunList(path, servers, outcome)),
                          !.exit = exit]
    /\ op' = "remove"
    /\ UNCHANGED <<servers0, tools, path, idx, work, names, status, results>>

CallGetInstalledTools ==
    /\ pc = "idle"
    /\ \E outcomes \in [1..Len(tools) -> ListOutcomes] :
         LET r == get_installed_tools(tools, path, servers, outcomes)
         IN /\ names' = r.names /\ exc' = r.exc /\ pc' = Ends(r.exc) /\ calls' = r.calls
            /\ seen' = [NoSeen EXCEPT !.outcomes = outcomes]
    /\ op' = "get_installed_tools" /\ out' = <<>> /\ args' = NoArgs
    /\ UNCHANGED <<servers0, tools, path, servers, idx, work, ret, status, results>>

CallGetAvailableTools ==
    /\ pc = "idle"
    /\ \E outcomes \in [1..Len(tools) -> ListOutcomes] :
         LET r == get_available_tools(tools, path, servers, outcomes)
         IN /\ names' = r.names /\ exc' = r.exc /\ pc' = Ends(r.exc) /\ calls' = r.calls
            /\ seen' = [NoSeen EXCEPT !.outcomes = outcomes]
    /\ op' = "get_available_tools" /\ out' = <<>> /\ args' = NoArgs
    /\ UNCHANGED <<servers0, tools, path, servers, idx, work, ret, status, results>>

\* utils.validate_environment() / validate_interactive_environment() called
\* on their own; what they read of the environment is kept in `seen`
CallValidateEnvironment ==
    /\ pc = "idle"
    /\ \E project \in BOOLEAN :
         LET v == validate_environment(path, project)
         IN /\ ret' = PyBool(v.val) /\ out' = v.out
            /\ seen' = [NoSeen EXCEPT !.project = project]
    /\ pc' = "done" /\ op' = "validate_environment" /\ args' = NoArgs
    /\ UNCHANGED <<servers0, tools, path, servers, idx, work, names, exc, status, calls, results>>

CallValidateInteractiveEnvironment ==
    /\ pc = "idle"
    /\ \E project \in BOOLEAN, tty \in BOOLEAN :
         LET v == validate_interactive_environment(path, project, tty)
         IN /\ ret' = PyBool(v.val) /\ out' = v.out
            /\ seen' = [NoSeen EXCEPT !.project = project, !.tty = tty]
    /\ pc' = "done" /\ op' = "validate_interactive_environment" /\ args' = NoArgs
    /\ UNCHANGED <<servers0, tools, path, servers, idx, work, names, exc, status, calls, results>>

(***************************************************************************)
(* Interactive selection (main.py _parse_selection).                       *)
(***************************************************************************)
\* str.lower() on the letters the menu reads
LowerChar(c) == IF c = "Q" THEN "q" ELSE IF c = "A" THEN "a" ELSE c
Lower(s) == IF Len(s) = 1 THEN LowerChar(s) ELSE s

\* str.split(',')
RECURSIVE SplitFrom(_, _, _)
SplitFrom(s, i, cur) ==
    IF i > Len(s) THEN <<cur>>
    ELSE IF SubSeq(s, i, i) = "," THEN <<cur>> \o SplitFrom(s, i + 1, "")
         ELSE SplitFrom(s, i + 1, cur \o SubSeq(s, i, i))
Split(s) == SplitFrom(s, 1, "")

\* str.strip() of blanks
RECURSIVE Strip(_)
Strip(s) ==
    IF s = "" THEN s
    ELSE IF SubSeq(s, 1, 1) = " " THEN Strip(SubSeq(s, 2, Len(s)))
    ELSE IF SubSeq(s, Len(s), Len(s)) = " " THEN Strip(SubSeq(s, 1, Len(s) - 1))
    ELSE s

Digits == <<"0", "1", "2", "3", "4", "5", "6", "7", "8", "9">>
IsDigit(c) == \E d \in 1..10 : Digits[d] = c
DigitVal(c) == (CHOOSE d \in 1..10 : Digits[d] = c) - 1

RECURSIVE Decimal(_)
Decimal(s) ==
    IF s = "" THEN 0
    ELSE 10 * Decimal(SubSeq(s, 1, Len(s) - 1)) + DigitVal(SubSeq(s, Len(s), Len(s)))

\* int(s): decimal digits with an optional sign; anything else is ValueError
ParseInt(s) ==
    LET signed == s # "" /\ SubSeq(s, 1, 1) \in {"+", "-"}
        body == IF signed THEN SubSeq(s, 2, Len(s)) ELSE s
    IN IF body = "" \/ \E i \in 1..Len(body) : ~IsDigit(SubSeq(body, i, i))
       THEN [ok |-> FALSE, val |-> 0]
       ELSE [ok |-> TRUE,
             val |-> IF signed /\ SubSeq(s, 1, 1) = "-" THEN 0 - Decimal(body) ELSE Decimal(body)]

InSeq(x, seq) == \E i \in 1..Len(seq) : seq[i] = x

RECURSIVE ParseItems(_, _, _, _)
ParseItems(items, k, tool_list, available_tools) ==
    IF k > Len(items) THEN [names |-> <<>>, out |-> <<>>]
    ELSE LET sel == Strip(items[k])
             n == ParseInt(sel)
             rest == ParseItems(items, k + 1, tool_list, available_tools)
             one == IF ~n.ok
                    THEN [names |-> <<>>,
                          out |-> << print_message("warning", "Invalid input: ", sel, "") >>]
                    ELSE IF 0 <= n.val - 1 /\ n.val - 1 < Len(tool_list)
                    THEN IF InSeq(tool_list[n.val], available_tools)
                         THEN [names |-> << tool_list[n.val] >>, out |-> <<>>]
                         ELSE [names |-> <<>>,
                               out |-> << print_message("warning", " is already installed",
                                                        tool_list[n.val], "") >>]
                    ELSE [names |-> <<>>,
                          out |-> << print_message("warning", "Invalid selection: ", sel, "") >>]
         IN [names |-> one.names \o rest.names, out |-> one.out \o rest.out]

parse_selection(selection, tool_list, available_tools) ==
    IF Lower(selection) = "q" THEN [names |-> << "__quit__" >>, out |-> <<>>]
    ELSE IF Lower(selection) = "a" THEN [names |-> available_tools, out |-> <<>>]
    ELSE ParseItems(Split(selection), 1, tool_list, available_tools)

\* what the user types at the prompt
Selections == {"q", "Q", "a", "1", " 2 ,1", "9", "x"}

(***************************************************************************)
(* Commands (main.py).                                                     *)
(***************************************************************************)
RECURSIVE Join(_, _)
\* ', '.join(names)
Join(seq, n) ==
    IF n = 0 THEN ""
    ELSE IF n = 1 THEN seq[1]
    ELSE Join(seq, n - 1) \o ", " \o seq[n]

Processing(tool) == print_message("info", "Processing: ", tool.description, "")

UnknownTool(tool_name) ==
    << print_message("error", "Unknown tool: ", tool_name, ""),
       print_message("info", "Available tools: ", Join(get_tool_names(tools), Len(tools)), "") >>

Outcome(tool_name, o) == [name |-> tool_name, outcome |-> o]

\* mutant of InstallOne: the loop runs the install command itself, whatever
\* check_prerequisites and is_installed would say
InstallOne_forced(tool_name, tool) ==
    /\ calls' = Append(calls, InstallCommand(tool, Cwd))
    /\ out' = Append(out, Processing(tool))
    /\ results' = Append(results, Outcome(tool_name, "installed"))
    /\ idx' = idx + 1
    /\ UNCHANGED <<pc, exc, servers>>

\* the body of the batch-add loops for a resolved tool (main.py 54-62, 157-165)
InstallOne(tool_name, tool) ==
    IF ~check_prerequisites(tool, path)
    THEN /\ out' = out \o << Processing(tool),
                             print_message("error", "Prerequisites not met for ", tool_name,
                                           tool.error_message),
                             print_message("error", "Failed to install ", tool_name, "") >>
         /\ results' = Append(results, Outcome(tool_name, "prerequisites"))
         /\ idx' = idx + 1
         /\ UNCHANGED <<pc, exc, calls, servers>>
    ELSE IF ~Binds(InstallParams, {"registry"})
    THEN \* tool.install(registry=registry)
         /\ out' = Append(out, Processing(tool))
         /\ results' = Append(results, Outcome(tool_name, "TypeError"))
         /\ pc' = "raised" /\ exc' = "TypeError"
         /\ UNCHANGED <<idx, calls, servers>>
    ELSE \E outcome \in ListOutcomes, exit \in ExitCodes :
         LET r == install(tool, None, path, servers, outcome, exit)
         IN /\ Len(r.calls) < 2 => exit = 0
            /\ calls' = calls \o r.calls
            /\ servers' = r.servers
            /\ IF r.exc # NoExc
               THEN /\ pc' = "raised" /\ exc' = r.exc
                    /\ out' = out \o << Processing(tool) >> \o r.out
                    /\ results' = Append(results, Outcome(tool_name, r.exc))
                    /\ idx' = idx
               ELSE /\ pc' = pc /\ exc' = exc
                    /\ idx' = idx + 1
                    /\ out' = out \o << Processing(tool) >> \o r.out \o
                              << IF r.val = PyBool(TRUE)
                                 THEN print_message("success", " installed successfully", tool_name, "")
                                 ELSE print_message("error", "Failed to install ", tool_name, "") >>
                    /\ results' = Append(results,
                                         Outcome(tool_name, IF r.val = PyBool(TRUE) THEN "installed" ELSE "failed"))

\* the body of the batch-remove loop for a resolved tool (main.py 82-87)
RemoveOne(tool_name, tool) ==
    IF ~Binds(RemoveParams, {"registry"})
    THEN \* tool.remove(registry=registry)
         /\ out' = Append(out, Processing(tool))
         /\ results' = Append(results, Outcome(tool_name, "TypeError"))
         /\ pc' = "raised" /\ exc' = "TypeError"
         /\ UNCHANGED <<idx, calls, servers>>
    ELSE \E outcome \in ListOutcomes, exit \in ExitCodes :
         LET r == remove(tool, path, servers, outcome, exit)
         IN /\ Len(r.calls) < 2 => exit = 0
            /\ calls' = calls \o r.calls
            /\ servers' = r.servers
            /\ IF r.exc # NoExc
               THEN /\ pc' = "raised" /\ exc' = r.exc
                    /\ out' = out \o << Processing(tool) >> \o r.out
                    /\ results' = Append(results, Outcome(tool_name, r.exc))
                    /\ idx' = idx
               ELSE /\ pc' = pc /\ exc' = exc
                    /\ idx' = idx + 1
                    /\ out' = out \o << Processing(tool) >> \o r.out \o
                              << IF r.val = PyBool(TRUE)
                                 THEN print_message("success", " removed successfully", tool_name, "")
                                 ELSE print_message("error", "Failed to remove ", tool_name, "") >>
                    /\ results' = Append(results,
                                         Outcome(tool_name, IF r.val = PyBool(TRUE) THEN "removed" ELSE "failed"))

\* cmd_add_interactive up to the menu (main.py 171-181)
cmd_add_interactive ==
    \E project \in BOOLEAN, tty \in BOOLEAN :
      LET v == validate_interactive_environment(path, project, tty)
      IN /\ seen' = [NoSeen EXCEPT !.project = project, !.tty = tty]
         /\ IF ~v.val
            THEN /\ pc' = "exited" /\ exc' = "SystemExit" /\ status' = 1
                 /\ out' = v.out /\ calls' = <<>> /\ names' = <<>>
            ELSE \E outcomes \in [1..Len(tools) -> ListOutcomes] :
                   LET r == get_available_tools(list_tools(tools), path, servers, outcomes)
                   IN /\ calls' = r.calls /\ names' = r.names /\ status' = 0
                      /\ IF r.exc # NoExc
                         THEN pc' = "raised" /\ exc' = r.exc /\ out' = v.out
                         ELSE IF r.names = <<>>
                         THEN /\ pc' = "done" /\ exc' = NoExc
                              /\ out' = Append(v.out, print_message("success", "All tools are already installed!", "", ""))
                         ELSE pc' = "select" /\ exc' = NoExc /\ out' = v.out

\* cmd_add up to its loop (main.py 35-45)
cmd_add ==
    /\ pc = "idle"
    /\ \E a \in ArgLists, interactive \in BOOLEAN :
         /\ interactive => Len(a) <= 1
         /\ args' = [NoArgs EXCEPT !.command = "add", !.tools = a, !.interactive = interactive]
         /\ IF interactive THEN cmd_add_interactive
            ELSE IF a = <<>>
            THEN /\ out' = << print_message("error", "No tools specified. Use --interactive or specify tool names.", "", "") >>
                 /\ pc' = "done" /\ exc' = NoExc /\ status' = 0 /\ seen' = NoSeen
                 /\ calls' = <<>> /\ names' = <<>>
            ELSE \E project \in BOOLEAN :
                   LET v == validate_environment(path, project)
                   IN /\ seen' = [NoSeen EXCEPT !.project = project]
                      /\ out' = v.out /\ calls' = <<>> /\ names' = <<>>
                      /\ IF ~v.val
                         THEN pc' = "exited" /\ exc' = "SystemExit" /\ status' = 1
                         ELSE pc' = "loop" /\ exc' = NoExc /\ status' = 0
         /\ work' = IF interactive THEN <<>> ELSE a
    /\ op' = "cmd_add" /\ idx' = 0 /\ ret' = None /\ results' = <<>>
    /\ UNCHANGED <<servers0, tools, path, servers>>

\* one iteration of cmd_add's loop (main.py 47-63)
cmd_add_iter ==
    /\ pc = "loop" /\ op = "cmd_add" /\ idx < Len(work)
    /\ LET tool_name == work[idx + 1]
           g == get_tool(tools, tool_name)
       IN IF ~g.found
          THEN /\ out' = out \o UnknownTool(tool_name)
               /\ results' = Append(results, Outcome(tool_name, "unknown"))
               /\ idx' = idx + 1
               /\ UNCHANGED <<pc, exc, calls, servers>>
          ELSE InstallOne(tool_name, g.tool)
    /\ UNCHANGED <<servers0, tools, path, op, args, work, ret, names, status, seen>>

\* mutant of cmd_remove: the environment is validated before the list is looked at
cmd_remove_validates ==
    /\ pc = "idle"
    /\ \E a \in ArgLists, project \in BOOLEAN :
         LET v == validate_environment(path, project)
         IN /\ args' = [NoArgs EXCEPT !.command = "remove", !.tools = a]
            /\ work' = a
            /\ seen' = [NoSeen EXCEPT !.project = project]
            /\ IF ~v.val
               THEN pc' = "exited" /\ exc' = "SystemExit" /\ status' = 1 /\ out' = v.out
               ELSE IF a = <<>>
               THEN /\ out' = Append(v.out, print_message("error", "No tools specified. Specify tool names to remove.", "", ""))
                    /\ pc' = "done" /\ exc' = NoExc /\ status' = 0
               ELSE pc' = "loop" /\ exc' = NoExc /\ status' = 0 /\ out' = v.out
    /\ op' = "cmd_remove" /\ idx' = 0 /\ ret' = None /\ results' = <<>>
    /\ calls' = <<>> /\ names' = <<>>
    /\ UNCHANGED <<servers0, tools, path, servers>>

\* cmd_remove up to its loop (main.py 66-73)
cmd_remove ==
    /\ pc = "idle"
    /\ \E a \in ArgLists :
         /\ args' = [NoArgs EXCEPT !.command = "remove", !.tools = a]
         /\ work' = a
         /\ IF a = <<>>
            THEN /\ out' = << print_message("error", "No tools specified. Specify tool names to remove.", "", "") >>
                 /\ pc' = "done" /\ exc' = NoExc /\ status' = 0 /\ seen' = NoSeen
            ELSE \E project \in BOOLEAN :
                   LET v == validate_environment(path, project)
                   IN /\ seen' = [NoSeen EXCEPT !.project = project]
                      /\ out' = v.out
                      /\ IF ~v.val
                         THEN pc' = "exited" /\ exc' = "SystemExit" /\ status' = 1
                         ELSE pc' = "loop" /\ exc' = NoExc /\ status' = 0
    /\ op' = "cmd_remove" /\ idx' = 0 /\ ret' = None /\ results' = <<>>
    /\ calls' = <<>> /\ names' = <<>>
    /\ UNCHANGED <<servers0, tools, path, servers>>

\* one iteration of cmd_remove's loop (main.py 75-88)
cmd_remove_iter ==
    /\ pc = "loop" /\ op = "cmd_remove" /\ idx < Len(work)
    /\ LET tool_name == work[idx + 1]
           g == get_tool(tools, tool_name)
       IN IF ~g.found
          THEN /\ out' = out \o UnknownTool(tool_name)
               /\ results' = Append(results, Outcome(tool_name, "unknown"))
               /\ idx' = idx + 1
               /\ UNCHANGED <<pc, exc, calls, servers>>
          ELSE RemoveOne(tool_name, g.tool)
    /\ UNCHANGED <<servers0, tools, path, op, args, work, ret, names, status, seen>>

\* the loop of cmd_add / cmd_remove is exhausted: return None (main.py 64, 89)
BatchReturn ==
    /\ pc = "loop" /\ op \in {"cmd_add", "cmd_remove"} /\ idx = Len(work)
    /\ pc' = "done" /\ ret' = None
    /\ UNCHANGED <<servers0, tools, path, servers, op, args, idx, work, names, exc, status, out,
                   calls, results, seen>>

\* longest series of prompts answered with nothing selectable
MaxPrompts == 2

\* _display_tool_menu's rows (main.py 98-101): "  i) description status"
MenuRows(installed) ==
    [i \in 1..Len(tools) |->
        print_message("stderr", ToString(i) \o ") ", tools[i].tool.description,
                      IF InSeq(tools[i].key, installed) THEN " (installed)" ELSE "")]

\* _get_user_tool_selection (main.py 133-147), one round of its loop, and what
\* cmd_add_interactive does with the selection (main.py 183-187, 152-153).
\* `selection` is the line the terminal holds for input().
Select ==
    /\ pc = "select"
    /\ \E selection \in Selections :
         LET tool_list == get_tool_names(tools)
             menu == print_message("info", "Available MCP Tools:", "", "")
         IN /\ seen' = [seen EXCEPT !.stdin = selection]
            /\ IF tool_list # <<>> /\ ~Binds(IsInstalledParams, {"registry"})
               THEN \* _display_tool_menu: tool.is_installed(registry=registry)
                    /\ pc' = "raised" /\ exc' = "TypeError"
                    /\ out' = Append(out, menu)
                    /\ UNCHANGED <<op, work, calls, idx, servers>>
               ELSE \E outcomes \in [1..Len(tools) -> ListOutcomes] :
                      LET shown == InstalledScan(tools, path, servers, outcomes, TRUE)
                          rows == MenuRows(shown.names)
                          sel == parse_selection(selection, tool_list, names)
                      IN /\ calls' = calls \o shown.calls
                         /\ UNCHANGED servers
                         /\ IF shown.exc # NoExc
                            THEN /\ pc' = "raised" /\ exc' = shown.exc
                                 /\ out' = Append(out, menu)
                                 /\ UNCHANGED <<op, work, idx>>
                            ELSE IF sel.names = << "__quit__" >>
                            THEN /\ pc' = "done" /\ exc' = NoExc
                                 /\ out' = out \o << menu >> \o rows \o
                                           << print_message("info", "Goodbye!", "", "") >>
                                 /\ UNCHANGED <<op, work, idx>>
                            ELSE IF sel.names # <<>>
                            THEN /\ pc' = "loop" /\ exc' = NoExc
                                 /\ op' = "_install_selected_tools"
                                 /\ work' = sel.names /\ idx' = 0
                                 /\ out' = out \o << menu >> \o rows \o sel.out \o
                                           << print_message("info", "Installing MCP tool(s)...", "", "") >>
                            ELSE /\ idx < MaxPrompts
                                 /\ pc' = "select" /\ exc' = NoExc /\ idx' = idx + 1
                                 /\ out' = out \o << menu >> \o rows \o sel.out
                                 /\ UNCHANGED <<op, work>>
    /\ UNCHANGED <<servers0, tools, path, args, ret, names, status, results>>

\* _install_selected_tools called with a list of registry names (main.py 150-153)
CallInstallSelected ==
    /\ pc = "idle"
    /\ \E n \in 0..MaxArgs : \E sel \in [1..n -> KeySet(tools)] :
         /\ args' = [NoArgs EXCEPT !.tools = sel]
         /\ work' = sel
    /\ pc' = "loop" /\ op' = "_install_selected_tools"
    /\ out' = << print_message("info", "Installing MCP tool(s)...", "", "") >>
    /\ idx' = 0 /\ ret' = None /\ names' = <<>> /\ exc' = NoExc /\ status' = 0
    /\ calls' = <<>> /\ results' = <<>> /\ seen' = NoSeen
    /\ UNCHANGED <<servers0, tools, path, servers>>

\* one iteration of _install_selected_tools (main.py 155-166)
install_selected_iter ==
    /\ pc = "loop" /\ op = "_install_selected_tools" /\ idx < Len(work)
    /\ InstallOne(work[idx + 1], get_tool(tools, work[idx + 1]).tool)
    /\ UNCHANGED <<servers0, tools, path, op, args, work, ret, names, status, seen>>

\* _install_selected_tools after its loop (main.py 168)
install_selected_end ==
    /\ pc = "loop" /\ op = "_install_selected_tools" /\ idx = Len(work)
    /\ out' = Append(out, print_message("success", "MCP tool installation complete!", "", ""))
    /\ pc' = "done" /\ ret' = None
    /\ UNCHANGED <<servers0, tools, path, servers, op, args, idx, work, names, exc, status,
                   calls, results, seen>>

RECURSIVE ListRows(_, _)
ListRows(installed, n) ==
    IF n = 0 THEN <<>>
    ELSE ListRows(installed, n - 1) \o
         << print_message("stdout",
                          IF InSeq(tools[n].key, installed) THEN "INSTALLED  " ELSE "AVAILABLE  ",
                          tools[n].tool.description, "") >> \o
         (IF ~check_prerequisites(tools[n].tool, path)
          THEN << print_message("warning", "   Prerequisites missing: ", tools[n].tool.error_message, "") >>
          ELSE <<>>)

\* cmd_list (main.py 12-32)
cmd_list ==
    /\ pc = "idle"
    /\ \E outcomes \in [1..Len(tools) -> ListOutcomes] :
         LET r == get_installed_tools(list_tools(tools), path, servers, outcomes)
             header == << print_message("stdout", "Available MCP Tools", "", "") >>
         IN /\ calls' = r.calls /\ exc' = r.exc /\ pc' = Ends(r.exc) /\ names' = r.names
            /\ out' = IF r.exc # NoExc THEN <<>>
                      ELSE IF tools = <<>>
                      THEN Append(header, print_message("info", "No tools available in registry.", "", ""))
                      ELSE header \o ListRows(r.names, Len(tools)) \o
                           << print_message("stdout", "Total: ", "", "") >>
    /\ op' = "cmd_list" /\ args' = [NoArgs EXCEPT !.command = "list"] /\ seen' = NoSeen
    /\ UNCHANGED <<servers0, tools, path, servers, idx, work, ret, status, results>>

Next ==
    \/ Construct
    \/ main_remove_interactive
    \/ Return
    \/ CallGetTool
    \/ CallIsInstalled
    \/ CallInstall
    \/ CallRemove
    \/ CallGetInstalledTools
    \/ CallGetAvailableTools
    \/ CallValidateEnvironment
    \/ CallValidateInteractiveEnvironment
    \/ CallInstallSelected
    \/ cmd_list
    \/ cmd_add
    \/ cmd_add_iter
    \/ cmd_remove
    \/ cmd_remove_iter
    \/ BatchReturn
    \/ Select
    \/ install_selected_iter
    \/ install_selected_end

Spec == Init /\ [][Next]_vars

(***************************************************************************)
(* Properties.                                                             *)
(***************************************************************************)
ResultNames == [i \in 1..Len(results) |-> results[i].name]
Keys == KeySet(tools)
ToolOf(name) == tools[CHOOSE i \in 1..Len(tools) : tools[i].key = name].tool
Finished == pc \in {"done", "raised"}
IsMutation(command) ==
    Len(command) >= 3 /\ SubSeq(command, 1, 3) \in {<<"claude", "mcp", "add">>, <<"claude", "mcp", "remove">>}

\* C1: a batch add / remove over an explicit list of names always completes:
\* when the command has ended, it returned normally and every requested name
\* was processed exactly once, in the order given.
C1_BatchAlwaysCompletes ==
    (op \in {"cmd_add", "cmd_remove"} /\ ~args.interactive /\ Finished)
        => (pc = "done" /\ exc = NoExc /\ ResultNames = args.tools)

\* C2: for a name that is not in the registry get_tool returns None without an
\* error, and batch add / remove report "Unknown tool" for it, raise nothing
\* and go on to the next name.
C2_UnknownToolReported ==
    /\ (op = "get_tool" /\ args.name \notin Keys) => (pc = "done" /\ ret = None /\ exc = NoExc)
    /\ op \in {"cmd_add", "cmd_remove"} =>
         \A i \in 1..Len(results) :
            work[i] \notin Keys =>
               /\ results[i] = Outcome(work[i], "unknown")
               /\ InSeq(print_message("error", "Unknown tool: ", work[i], ""), out)
               /\ idx >= i
               /\ (pc = "raised" => i < Len(results))

C2_Witness ==
    /\ op = "cmd_add" /\ Len(results) = 2
    /\ work[1] \notin Keys /\ results[1].outcome = "unknown"
    /\ work[2] \in Keys

\* C3: whenever is_installed reports the tool installed, install returns True
\* and hands no add command to the host (the `mcp list` query is its only call).
C3_InstallIdempotent ==
    (op = "install" /\ seen.reported = PyBool(TRUE))
        => (pc = "done" /\ ret = PyBool(TRUE) /\ exc = NoExc /\ calls = <<ListCommand>>)

C3_Witness ==
    op = "install" /\ seen.reported = PyBool(TRUE) /\ ret = PyBool(TRUE) /\ args.name \in servers

\* C4: whenever is_installed reports the tool not installed, remove returns True
\* and never hands the removal command to the host.
C4_RemoveIdempotent ==
    (op = "remove" /\ seen.reported = PyBool(FALSE))
        => (pc = "done" /\ ret = PyBool(TRUE) /\ exc = NoExc /\ calls = <<ListCommand>>)

C4_Witness ==
    op = "remove" /\ seen.reported = PyBool(FALSE) /\ ret = PyBool(TRUE) /\ args.name \notin servers

\* C5: in batch add (cmd_add and _install_selected_tools) a resolved tool whose
\* prerequisites are not met is reported with its remediation message and as
\* failed, install is not called for it and no host add command is run for it.
C5_PrerequisitesGate ==
    op \in {"cmd_add", "_install_selected_tools"} =>
        \A i \in 1..Len(results) :
           (work[i] \in Keys /\ ~(IF ToolOf(work[i]).prerequisite = "npm"
                                   THEN "npm" \in path \/ "npx" \in path
                                   ELSE ToolOf(work[i]).prerequisite \in path)) =>
              /\ results[i] = Outcome(work[i], "prerequisites")
              /\ InSeq(print_message("error", "Prerequisites not met for ", work[i],
                                     ToolOf(work[i]).error_message), out)
              /\ InSeq(print_message("error", "Failed to install ", work[i], ""), out)
              /\ \A k \in 1..Len(calls) : ~IsMutation(calls[k])

C5_Witness ==
    /\ op = "cmd_add" /\ pc = "done" /\ Len(results) = 2
    /\ results[1].outcome = "unknown" /\ results[2].outcome = "prerequisites"

\* C6: when install (tool not installed) or remove (tool installed) reaches the
\* host, it runs the host command exactly once and returns True iff the host
\* exits with code zero; on any failure, a failure to launch included, it
\* returns False and raises nothing.
C6_HostFailureReturnsFalse ==
    (/\ Finished
     /\ \/ op = "install" /\ seen.reported = PyBool(FALSE)
        \/ op = "remove" /\ seen.reported = PyBool(TRUE))
        => /\ exc = NoExc
           /\ Len(calls) = 2
           /\ ret \in {PyBool(TRUE), PyBool(FALSE)}
           /\ (ret = PyBool(TRUE)) => (seen.exit = 0)

\* C7: the installed-state query fails soft: however the `mcp list` query
\* fails, no error reaches the caller of is_installed, get_installed_tools or
\* get_available_tools, and the tool counts as not installed.
C7_QueryFailsSoft ==
    (op \in {"is_installed", "get_installed_tools", "get_available_tools"} /\ Finished)
        => /\ exc = NoExc
           /\ (op = "is_installed" /\ seen.reported # "ok") => ret = PyBool(FALSE)

C9_CancelAborts ==
    (args.interactive /\ seen.stdin \in {"q", "Q"} /\ pc \notin {"select", "loop"})
        => /\ pc = "done" /\ exc = NoExc
           /\ results = <<>>
           /\ \A k \in 1..Len(calls) : ~IsMutation(calls[k])

\* C10: a registry built from a valid external config file holds exactly the
\* tools the file defines, in the file's order, each with the file's fields,
\* and no hardcoded default the file does not itself define.
ValidConfig(file) ==
    /\ file.readable /\ file.wellFormed /\ file.root = "object"
    /\ file.hasTools => /\ file.toolsType = "object"
                        /\ \A i \in 1..Len(file.entries) :
                              RequiredFields \subseteq DOMAIN file.entries[i].cfg

DefinedBy(file) == IF file.hasTools THEN file.entries ELSE <<>>

C10_RegistryIsConfig ==
    (op = "MCPToolRegistry" /\ seen.config_path # NoPath /\ ValidConfig(seen.file))
        => /\ Len(tools) = Len(DefinedBy(seen.file))
           /\ \A i \in 1..Len(tools) :
                 /\ tools[i].key = seen.file.entries[i].key
                 /\ \A f \in RequiredFields : tools[i].tool[f] = seen.file.entries[i].cfg[f]
           /\ \A d \in 1..Len(DefaultTools) :
                 \A i \in 1..Len(tools) :
                    tools[i].key = DefaultTools[d].key =>
                       \E j \in 1..Len(seen.file.entries) :
                          /\ seen.file.entries[j].key = DefaultTools[d].key
                          /\ tools[i].tool.description = seen.file.entries[j].cfg.description

C10_Witness ==
    /\ op = "MCPToolRegistry" /\ seen.config_path = HomePath
    /\ seen.file.entries = <<SerenaEntry, CustomEntry>>
    /\ get_tool_names(tools) = <<"serena", "custom-tool">>
    /\ "basic-memory" \notin Keys

\* C11: when a config file is found but loading it fails (the file cannot be
\* read, is not JSON, or does not hold an object of tool members that all carry
\* the required fields), construction raises nothing, a warning is printed and
\* the registry is exactly the hardcoded defaults: no tool of the file is in it.
C11_LoadFailureFallsBack ==
    (op = "MCPToolRegistry" /\ seen.config_path # NoPath /\ ~ValidConfig(seen.file))
        => /\ pc = "done" /\ exc = NoExc
           /\ \E k \in 1..Len(out) :
                 out[k].level = "warning" /\ out[k].msg = "Failed to load external config: "
           /\ tools = DefaultTools
           /\ get_tool_names(tools) = <<"serena", "basic-memory", "gemini-cli">>
           /\ \A i \in 1..Len(tools) :
                 /\ tools[i].tool.name = tools[i].key
                 /\ \A j \in 1..Len(seen.file.entries) :
                       tools[i].tool.description # seen.file.entries[j].cfg.description

C11_Witness ==
    /\ op = "MCPToolRegistry" /\ seen.config_path = XdgPath
    /\ seen.file.entries = <<CustomEntry, MissingFieldEntry>>
    /\ Len(tools) = 3 /\ "custom-tool" \notin Keys

\* C12: when no config file is found the registry is exactly the three
\* built-in tools and nothing is printed; a warning is printed during
\* construction only when a file was found and loading it failed.
C12_AbsenceIsSilent ==
    op = "MCPToolRegistry" =>
        /\ seen.config_path = NoPath =>
              /\ get_tool_names(tools) = <<"serena", "basic-memory", "gemini-cli">>
              /\ \A i \in 1..Len(tools) : tools[i].tool.name = tools[i].key
              /\ out = <<>>
        /\ (\E k \in 1..Len(out) : out[k].level = "warning")
              => (seen.config_path # NoPath /\ ~ValidConfig(seen.file))

C12_Witness ==
    /\ op = "MCPToolRegistry" /\ seen.config_path = NoPath
    /\ seen.env_config = EnvPath /\ seen.exists = {}
    /\ Len(tools) = 3 /\ out = <<>>

\* C13: for every tool and every text the host prints, is_installed answers
\* True exactly when the text has an occurrence of the tool's name immediately
\* followed by a colon; nothing else of the text, the registry or the host's
\* state enters the answer.
C13_InstalledIffMarker ==
    (op = "is_installed" /\ pc = "done" /\ seen.reported = "ok")
        => LET marker == ToolOf(args.name).name \o ":"
               occurs == \E a \in 1..Len(seen.stdout) : \E b \in a..Len(seen.stdout) :
                            SubSeq(seen.stdout, a, b) = marker
           IN /\ ret \in {PyBool(TRUE), PyBool(FALSE)}
              /\ (ret = PyBool(TRUE)) <=> occurs

C13_Witness ==
    /\ op = "is_installed" /\ pc = "done" /\ seen.reported = "ok"
    /\ args.name = "serena" /\ seen.stdout = "xserena: ok" /\ ret = PyBool(TRUE)
    /\ "serena" \notin servers

\* the name ends `other` without being all of it
IsProperSuffix(name, other) ==
    Len(name) < Len(other) /\ SubSeq(other, Len(other) - Len(name) + 1, Len(other)) = name

\* C14 as stated: with host output "foobar: installed", is_installed of the
\* tool "foo" (whose name begins the listed name) answers True.
C14_PrefixFalsePositive ==
    (op = "is_installed" /\ pc = "done" /\ seen.reported = "ok"
     /\ args.name = "foo" /\ seen.stdout = "foobar: installed")
        => ret = PyBool(TRUE)

\* C14 amended: the false positive is for a name that ENDS another tool's
\* name: such a tool is reported installed whenever the other tool is listed;
\* with host output "foobar: installed", is_installed answers True for "bar"
\* and False for "foo".
C14_SuffixFalsePositive ==
    (op = "is_installed" /\ pc = "done" /\ seen.reported = "ok")
        => /\ (\E m \in Keys : /\ IsProperSuffix(ToolOf(args.name).name, m)
                                /\ Contains(seen.stdout, m \o ":"))
                 => ret = PyBool(TRUE)
           /\ seen.stdout = "foobar: installed" =>
                 /\ args.name = "bar" => ret = PyBool(TRUE)
                 /\ args.name = "foo" => ret = PyBool(FALSE)

C14_Witness ==
    /\ op = "is_installed" /\ pc = "done" /\ args.name = "bar" /\ ret = PyBool(TRUE)
    /\ servers = {"foobar"} /\ seen.stdout = McpListOutput({"foobar"})

\* where the placeholder text starts in a token (0-based offsets)
PlaceholderAt(t) ==
    {a \in 0..(Len(t) - Len("{project_dir}")) :
        SubSeq(t, a + 1, a + Len("{project_dir}")) = "{project_dir}"}

\* the install command has been handed to the host by MCPTool.install
RanInstallCommand == op = "install" /\ Len(calls) = 2

\* the directory install substitutes
ResolvedDir == IF args.project_dir = None THEN Cwd ELSE args.project_dir

\* C15 as stated: in the command handed to the host, a token that is the
\* placeholder is the project directory, every other token is the template's
\* token unchanged, and the number and order of tokens are the template's.
C15_PlaceholderTokens ==
    RanInstallCommand =>
        LET template == ToolOf(args.name).install_command
        IN /\ Len(calls[2]) = Len(template)
           /\ \A i \in 1..Len(template) :
                 calls[2][i] = IF template[i] = "{project_dir}" THEN ResolvedDir ELSE template[i]

\* C15 amended: every occurrence of the placeholder text inside a token, the
\* token being the placeholder or merely containing it, is replaced by the
\* project directory (the working directory when none is supplied); the rest
\* of the token and every token without the placeholder are unchanged, and
\* the number and order of tokens are the template's.
C15_PlaceholderOccurrences ==
    RanInstallCommand =>
        LET template == ToolOf(args.name).install_command
            L == Len("{project_dir}")
        IN /\ Len(calls[2]) = Len(template)
           /\ \A i \in 1..Len(template) :
                 LET t == template[i]
                     occ == PlaceholderAt(t)
                 IN /\ Cardinality(occ) <= 2
                    /\ occ = {} => calls[2][i] = t
                    /\ \A a \in occ :
                          occ = {a} =>
                             calls[2][i] = SubSeq(t, 1, a) \o ResolvedDir \o SubSeq(t, a + L + 1, Len(t))
                    /\ \A a \in occ : \A b \in occ :
                          a < b =>
                             calls[2][i] = SubSeq(t, 1, a) \o ResolvedDir \o SubSeq(t, a + L + 1, b)
                                           \o ResolvedDir \o SubSeq(t, b + L + 1, Len(t))

C15_Witness ==
    /\ RanInstallCommand /\ args.name = "foo" /\ args.project_dir = "/x/y"
    /\ calls[2] = <<"claude", "mcp", "add", "foo", "--", "npx", "foo-mcp", "--dir=/x/y">>
    /\ ret = PyBool(TRUE)

\* the interactive add command has shown its menu and read the user's line
MenuAnswered == op \in {"cmd_add", "_install_selected_tools"} /\ args.interactive /\ seen.stdin # ""

\* C16: in interactive install mode the menu presents every tool of the
\* registry and raises nothing; when the selection goes on to batch install,
\* the list holds only registry names that are not installed.
C16_InteractiveSelection ==
    MenuAnswered =>
        /\ pc # "raised" /\ exc = NoExc
        /\ \A i \in 1..Len(tools) :
              \E k \in 1..Len(out) :
                 out[k].level = "stderr" /\ out[k].arg = tools[i].tool.description
        /\ op = "_install_selected_tools" =>
              \A i \in 1..Len(work) : work[i] \in Keys /\ InSeq(work[i], names)

\* C17: the remove command supports interactive mode: given the interactive
\* flag it is not rejected but goes on to interactive removal, and what it
\* passes to batch removal are installed names only.
C17_RemoveInteractive ==
    (args.command = "remove" /\ args.interactive)
        => /\ pc # "exited" /\ status = 0 /\ exc = NoExc
           /\ \A i \in 1..Len(work) : work[i] \in servers

\* a batch over a list of names was started and the command has returned
BatchReturned ==
    /\ pc = "done"
    /\ \/ op \in {"cmd_add", "cmd_remove"} /\ ~args.interactive /\ args.tools # <<>>
       \/ op = "_install_selected_tools"

\* C18: every batch (add or remove over given names, interactive add) that
\* returns has printed, as its last line, a summary line announcing that the
\* batch is complete, whatever happened to the individual names.
C18_FinalSummaryLine ==
    BatchReturned =>
        /\ out # <<>>
        /\ out[Len(out)].level = "success"
        /\ out[Len(out)].msg \in {"MCP tool installation complete!", "MCP tool removal complete!"}

\* C19: no exception escapes the list, add or remove command: whatever fails
\* (configuration, unknown name, unmet prerequisite, host invocation,
\* environment) is reported as a status line, and a resolved tool whose
\* prerequisites are met is installed / removed through the descriptor and
\* reported from its boolean result.
C19_NoUncaughtException ==
    op \in {"cmd_list", "cmd_add", "cmd_remove", "_install_selected_tools"} =>
        /\ pc # "raised"
        /\ exc \in {NoExc, "SystemExit"}
        /\ \A i \in 1..Len(results) :
              results[i].outcome \in {"unknown", "prerequisites", "installed", "removed", "failed"}

Candidates ==
    (IF seen.env_config # "" THEN << seen.env_config >> ELSE <<>>)
        \o << "~/.config/claude-extend/tools.json", "~/.claude-extend/tools.json" >>

\* C22: the config path the registry is built from is the first existing one
\* of: the path CLAUDE_EXTEND_CONFIG names, ~/.config/claude-extend/tools.json,
\* ~/.claude-extend/tools.json; a path named by the variable that does not
\* exist is passed over, and there is no path when no candidate exists.
C22_ConfigPathPriority ==
    op = "MCPToolRegistry" =>
        IF \E k \in 1..Len(Candidates) : Candidates[k] \in seen.exists
        THEN \E k \in 1..Len(Candidates) :
                /\ seen.config_path = Candidates[k]
                /\ Candidates[k] \in seen.exists
                /\ \A j \in 1..(k - 1) : Candidates[j] \notin seen.exists
        ELSE seen.config_path = NoPath

C22_Witness ==
    /\ op = "MCPToolRegistry" /\ seen.env_config = EnvPath
    /\ seen.exists = {XdgPath, HomePath} /\ seen.config_path = XdgPath

\* how many times the `mcp list` query was spawned by the operation
ListQueries == Cardinality({k \in 1..Len(calls) : calls[k] = ListCommand})

\* C23: the `mcp list` query is spawned at most once, however many
\* installed-state lookups are made on the registry: already within one
\* operation on it there is never a second query.
C23_QueryAtMostOnce == ListQueries <= 1

\* the tool was added to the host by this process and nothing the host listed
\* when the process started carries its marker
InstalledInThisRun(name) ==
    /\ name \in servers /\ name \notin servers0
    /\ \A m \in servers0 :
          \A a \in 1..Len(m) : SubSeq(m \o ":", a, Len(m) + 1) # name \o ":"

\* C24: installed state is stale within one process: once a tool has been
\* installed by the process, a later is_installed for it, the host listing
\* it, still answers False.
C24_InstalledStateStale ==
    (/\ op = "is_installed" /\ pc = "done" /\ seen.reported = "ok"
     /\ seen.stdout = McpListOutput(servers)
     /\ InstalledInThisRun(ToolOf(args.name).name))
        => ret = PyBool(FALSE)

\* seq lists some of the registry's names, each once, in the registry's order
InRegistryOrder(seq) ==
    \E f \in [1..Len(seq) -> 1..Len(tools)] :
       /\ \A k \in 1..Len(seq) : tools[f[k]].key = seq[k]
       /\ \A k \in 1..(Len(seq) - 1) : f[k] < f[k + 1]

\* C25: for the same registry, host state and query results,
\* get_installed_tools and get_available_tools are complementary: no name is
\* in both, every registry name is in one of them, exactly once, and each
\* lists its names in the registry's insertion order.
C25_InstalledAvailableComplementary ==
    (op \in {"get_installed_tools", "get_available_tools"} /\ pc = "done")
        => LET installed == IF op = "get_installed_tools" THEN names
                            ELSE get_installed_tools(tools, path, servers, seen.outcomes).names
               available == IF op = "get_available_tools" THEN names
                            ELSE get_available_tools(tools, path, servers, seen.outcomes).names
           IN /\ \A i \in 1..Len(installed) : ~InSeq(installed[i], available)
              /\ \A k \in Keys : InSeq(k, installed) \/ InSeq(k, available)
              /\ Len(installed) + Len(available) = Len(tools)
              /\ InRegistryOrder(installed) /\ InRegistryOrder(available)

C25_Witness ==
    /\ op = "get_available_tools" /\ pc = "done" /\ servers = {"foobar"}
    /\ names = <<"foo">> /\ get_tool_names(tools) = <<"foo", "foobar">>
    /\ seen.outcomes = <<"ok", "ok">>

\* C26: in a constructed registry, loaded from a config file or from the
\* defaults, every key is the name of the descriptor filed under it.
C26_KeyIsName ==
    pc # "boot" => \A i \in 1..Len(tools) : tools[i].tool.name = tools[i].key

\* C27: in a constructed registry, loaded from a config file or from the
\* defaults, every descriptor's install_command has at least one token, and
\* install never hands the host an empty command.
C27_InstallCommandNonEmpty ==
    /\ pc # "boot" => \A i \in 1..Len(tools) : Len(tools[i].tool.install_command) >= 1
    /\ \A k \in 1..Len(calls) : calls[k] # <<>>

\* the file parses as a JSON object that has no "tools" member or an empty
\* "tools" object
DefinesNoTool(file) ==
    /\ file.readable /\ file.wellFormed /\ file.root = "object"
    /\ \/ ~file.hasTools
       \/ file.toolsType = "object" /\ file.entries = <<>>

\* C28: a registry built from a config file that is a JSON object without a
\* "tools" key, or with an empty "tools" object, has no tools: there is no
\* fallback to the built-in defaults and no warning is printed.
C28_EmptyConfigEmptyRegistry ==
    (op = "MCPToolRegistry" /\ seen.config_path # NoPath /\ DefinesNoTool(seen.file))
        => /\ pc = "done" /\ exc = NoExc
           /\ tools = <<>>
           /\ \A k \in 1..Len(out) :
                 /\ out[k].level # "warning"
                 /\ out[k].msg # "Falling back to default tool registry"

C28_Witness ==
    /\ op = "MCPToolRegistry" /\ seen.config_path = EnvPath
    /\ seen.file.readable /\ seen.file.wellFormed /\ seen.file.root = "object"
    /\ ~seen.file.hasTools /\ tools = <<>> /\ Len(out) = 1

\* how many host add commands the operation has run
AddCommands ==
    Cardinality({k \in 1..Len(calls) :
                    Len(calls[k]) >= 3 /\ SubSeq(calls[k], 1, 3) = <<"claude", "mcp", "add">>})

\* a batch add over the same known tool given twice, its prerequisites met
\* and the host not listing it when the process started, has ended
DuplicateAddEnded ==
    /\ op = "cmd_add" /\ ~args.interactive /\ Finished
    /\ Len(work) = 2 /\ work[1] = work[2] /\ work[1] \in Keys
    /\ check_prerequisites(ToolOf(work[1]), path)
    /\ ~Contains(McpListOutput(servers0), ToolOf(work[1]).name \o ":")

\* C29: in such a batch both occurrences are processed; when the first
\* install succeeds, the second occurrence is found installed and reported as
\* success, and the host add command has been run once only.
C29_DuplicateInstalledOnce ==
    DuplicateAddEnded =>
        /\ pc = "done" /\ exc = NoExc /\ Len(results) = 2
        /\ results[1].outcome = "installed" =>
              /\ results[2].outcome = "installed"
              /\ AddCommands = 1

\* positions in `calls` of the host add / remove commands the operation ran
MutationsRun == {k \in 1..Len(calls) : IsMutation(calls[k])}

\* the processed occurrences of the request list for which the loop may
\* reach the host: the name resolves and, for add, the prerequisite is there
DueOccurrences ==
    {i \in 1..Len(results) :
        /\ work[i] \in Keys
        /\ op # "cmd_remove" =>
              (IF ToolOf(work[i]).prerequisite = "npm"
               THEN "npm" \in path \/ "npx" \in path
               ELSE ToolOf(work[i]).prerequisite \in path)}

====
